---- MODULE Spec2Model ----
(***************************************************************************)
(* pw-loopback (src/tools/pw-loopback.c): the loop thread running main()   *)
(* and setup_streams(), the events the main loop dispatches (signals, core *)
(* errors, format changes), and the realtime thread running                *)
(* capture_process().                                                      *)
(*                                                                         *)
(* The null-sink factory of the pulse protocol module                      *)
(* (src/modules/module-protocol-pulse/module-null-sink.c):                 *)
(* create_module_null_sink(), step by step, under NullSinkSpec.            *)
(***************************************************************************)
EXTENDS Integers, Sequences, FiniteSets, TLC

(* ------------------------------ bounds --------------------------------- *)

\* Longest command line (number of options after argv[0]).
MaxArgs == 2
\* Largest number of buffers the daemon negotiates per stream.
MaxBuffers == 2
\* The capacity of struct channel_map's position array.
MAX_CHANNELS == 4
\* The bound events delivered to one module.
MaxBound == 2
\* The calls of module_null_sink_unload on one module.
MaxUnload == 2

(* ------------------------- program constants --------------------------- *)

DEFAULT_RATE == 48000
DEFAULT_CHANNELS == 2
DEFAULT_CHANNEL_MAP == "[ FL, FR ]"
SPA_MSEC_PER_SEC == 1000
PW_ID_CORE == 0
EPIPE == 32
ENOENT == 2
SIGINT == 2
SIGTERM == 15
EINVAL == 22
ENOMEM == 12
\* snprintf(p, 6, ...): the size limit of one write into the position string.
POSITION_WRITE == 6
\* 2^31 - 1, the largest value of the C type int.
INT_MAX == 2147483647
\* 2^16 and 2^8: a uint32_t is kept as two 16-bit halves <<hi, lo>>.
Half == 65536
Byte == 256

PW_KEY_NODE_GROUP == "node.group"
PW_KEY_NODE_LATENCY == "node.latency"
PW_KEY_NODE_TARGET == "node.target"
MEDIA_ROLE == "media.role"
AUDIO_CHANNELS == "audio.channels"
AUDIO_POSITION == "audio.position"

\* A NULL char pointer, and the value of a key a dictionary does not hold.
NULLSTR == "<NULL>"
\* argv[0]-<pid>, as written into cname.
CNAME == "pw-loopback-4711"

Dirs == {"capture", "playback"}
Keys == {PW_KEY_NODE_GROUP, PW_KEY_NODE_LATENCY, PW_KEY_NODE_TARGET, MEDIA_ROLE,
         AUDIO_CHANNELS, AUDIO_POSITION}

(* ------------------------- property dictionary ------------------------- *)

EmptyDict == [k \in Keys |-> NULLSTR]

\* pw_properties_set: insert or overwrite; a NULL value removes the key.
pw_properties_set(d, k, v) == [d EXCEPT ![k] = v]

\* pw_properties_update_string: merge the "k=v" items of the text in order.
RECURSIVE pw_properties_update_string(_, _)
pw_properties_update_string(d, items) ==
    IF items = <<>> THEN d
    ELSE pw_properties_update_string(
             pw_properties_set(d, Head(items)[1], Head(items)[2]), Tail(items))

(* ------------------------------ integers ------------------------------- *)

Digits == {"0", "1", "2", "3", "4", "5", "6", "7", "8", "9"}

DigitVal(c) ==
    CASE c = "0" -> 0 [] c = "1" -> 1 [] c = "2" -> 2 [] c = "3" -> 3
      [] c = "4" -> 4 [] c = "5" -> 5 [] c = "6" -> 6 [] c = "7" -> 7
      [] c = "8" -> 8 [] c = "9" -> 9

RECURSIVE AtoiDigits(_, _)
AtoiDigits(s, acc) ==
    IF s = <<>> \/ Head(s) \notin Digits THEN acc
    ELSE AtoiDigits(Tail(s), acc * 10 + DigitVal(Head(s)))

\* atoi: optional sign, then the leading decimal digits; 0 when there are none.
atoi(s) ==
    IF s = <<>> THEN 0
    ELSE IF Head(s) = "-" THEN 0 - AtoiDigits(Tail(s), 0)
    ELSE IF Head(s) = "+" THEN AtoiDigits(Tail(s), 0)
    ELSE AtoiDigits(s, 0)

\* C division of integers truncates toward zero.
TruncDiv(a, b) == IF a >= 0 THEN a \div b ELSE 0 - ((0 - a) \div b)

\* Conversion of a (long long) value in the int range to uint32_t: modulo 2^32.
ToU32(q) == << (q \div Half) % Half, q % Half >>

\* The low 32 bits of a * b for an int a and 0 <= b < 2^16, by 8-bit limbs,
\* read back as a two's complement int.
WrapMul(a, b) ==
    LET a0 == a % Byte
        a1 == (a \div Byte) % Byte
        a2 == (a \div Half) % Byte
        a3 == (a \div (Half * Byte)) % Byte
        b0 == b % Byte
        b1 == b \div Byte
        t0 == a0 * b0
        t1 == a1 * b0 + a0 * b1 + (t0 \div Byte)
        t2 == a2 * b0 + a1 * b1 + (t1 \div Byte)
        t3 == a3 * b0 + a2 * b1 + (t2 \div Byte)
        hi == (t3 % Byte) * Byte + (t2 % Byte)
        lo == (t1 % Byte) * Byte + (t0 % Byte)
    IN  IF hi >= Half \div 2 THEN (hi - Half) * Half + lo ELSE hi * Half + lo

\* Whether the int product ms * DEFAULT_RATE leaves the range of int.
MulOverflows(ms) ==
    ms > INT_MAX \div DEFAULT_RATE \/ ms < 0 - (INT_MAX \div DEFAULT_RATE)

\* data.latency = atoi(optarg) * DEFAULT_RATE / SPA_MSEC_PER_SEC: an int
\* product, a long long quotient, stored in a uint32_t.  When the product
\* overflows the behaviour is undefined: the build either wraps the 32-bit
\* product or keeps the exact product in a wider register.
LatencyFrames(ms) ==
    IF MulOverflows(ms)
    THEN { ToU32(TruncDiv(WrapMul(ms, DEFAULT_RATE), SPA_MSEC_PER_SEC)),
           ToU32(ms * (DEFAULT_RATE \div SPA_MSEC_PER_SEC)) }
    ELSE { ToU32(TruncDiv(ms * DEFAULT_RATE, SPA_MSEC_PER_SEC)) }

\* printf("%u") of a uint32_t kept as <<hi, lo>>.
RECURSIVE FormatU(_)
FormatU(u) ==
    IF u[1] = 0 THEN ToString(u[2])
    ELSE LET t == (u[1] % 10) * Half + u[2]
         IN  FormatU(<< u[1] \div 10, t \div 10 >>) \o ToString(t % 10)

\* pw_properties_setf(props, key, "%u/%u", latency, DEFAULT_RATE)
FormatLatency(u) == FormatU(u) \o "/" \o ToString(DEFAULT_RATE)

(* ------------------------------ inputs --------------------------------- *)

\* One parsed option: the getopt code, and its optarg as a string (sarg), as
\* the characters atoi reads (narg), or as "k=v" items (oarg).
Opt(o, s, n, ov) == [opt |-> o, sarg |-> s, narg |-> n, oarg |-> ov]

LatencyArgs == { <<"2", "0">>, <<"0">>, <<"-", "1">>, <<"4", "4", "7", "4", "0">> }

Overlays ==
    { << <<PW_KEY_NODE_GROUP, "other">>, <<MEDIA_ROLE, "Game">> >>,
      << <<PW_KEY_NODE_LATENCY, "64/48000">>, <<PW_KEY_NODE_TARGET, "ovl">>,
         <<MEDIA_ROLE, "Music">> >> }

Options ==
    { Opt("h", "", <<>>, <<>>), Opt("V", "", <<>>, <<>>), Opt("?", "", <<>>, <<>>),
      Opt("r", "remote-1", <<>>, <<>>), Opt("g", "mygroup", <<>>, <<>>),
      Opt("c", "", <<"1">>, <<>>), Opt("m", "[ MONO ]", <<>>, <<>>),
      Opt("C", "source-A", <<>>, <<>>), Opt("P", "sink-B", <<>>, <<>>) }
    \cup { Opt("l", "", n, <<>>) : n \in LatencyArgs }
    \cup { Opt("i", "", <<>>, ov) : ov \in Overlays }
    \cup { Opt("o", "", <<>>, ov) : ov \in Overlays }

ArgvSet == UNION { [1..n -> Options] : n \in 0..MaxArgs }

\* Object ids and error codes the daemon addresses errors with.
ErrorIds == {PW_ID_CORE, PW_ID_CORE + 1}
ErrorCodes == {0 - EPIPE, 0 - ENOENT}
Signals == {SIGINT, SIGTERM}

NoEvent == [kind |-> "none", id |-> 0, res |-> 0]

\* Buffers are <<direction, index>>; NoBuf is the NULL pw_buffer pointer.
NoBuf == <<"null", 0>>
Buffers == Dirs \X (1..MaxBuffers)
StreamOf(b) == b[1]

(* ------------------- null-sink: values and helpers --------------------- *)

\* Strings of the null-sink factory are sequences of characters or words;
\* NsNULL is the NULL char pointer and the value of an absent key.
NsNULL == <<"NULL">>
\* The terminating NUL of a C string, and a byte alloca left indeterminate.
NUL == "NUL"
Indeterminate == "?"

SPA_KEY_AUDIO_CHANNELS == "audio.channels"
SPA_KEY_AUDIO_POSITION == "audio.position"
PW_KEY_NODE_NAME == "node.name"
PW_KEY_MEDIA_CLASS == "media.class"
PW_KEY_NODE_DESCRIPTION == "node.description"
PW_KEY_FACTORY_NAME == "factory.name"
PW_KEY_OBJECT_LINGER == "object.linger"

ArgKeys == {"sink_name", "channels", "channel_map"}
InfoKeys == {"module.author", "module.description", "module.usage", "module.version"}
NsKeys ==
    ArgKeys \cup InfoKeys \cup
    { SPA_KEY_AUDIO_CHANNELS, SPA_KEY_AUDIO_POSITION, PW_KEY_NODE_NAME,
      PW_KEY_MEDIA_CLASS, PW_KEY_NODE_DESCRIPTION, PW_KEY_FACTORY_NAME,
      PW_KEY_OBJECT_LINGER }

NsNoProps == [k \in NsKeys |-> NsNULL]

\* pw_properties_new_dict(&SPA_DICT_INIT_ARRAY(module_null_sink_info))
module_null_sink_info ==
    [k \in NsKeys |-> IF k \in InfoKeys THEN <<k>> ELSE NsNULL]

\* add_props(props, argument): every key=value of the argument is set.
add_props(props, argument) ==
    [k \in NsKeys |-> IF k \in ArgKeys /\ argument[k] # NsNULL THEN argument[k]
                      ELSE props[k]]

\* The decimal digits of a natural number; printf("%u") of a small uint32_t.
RECURSIVE Dec(_)
Dec(n) == IF n < 10 THEN <<ToString(n)>> ELSE Dec(n \div 10) \o <<ToString(n % 10)>>

\* Position tags, and the names channel_id2name gives them.
SPA_AUDIO_CHANNEL_UNKNOWN == "UNKNOWN"
Positions == {"FL", "FR", "FC", "LFE", "SL", "SR", "MONO", SPA_AUDIO_CHANNEL_UNKNOWN}

channel_id2name(id) ==
    CASE id = "FL" -> <<"F", "L">>
      [] id = "FR" -> <<"F", "R">>
      [] id = "FC" -> <<"F", "C">>
      [] id = "LFE" -> <<"L", "F", "E">>
      [] id = "SL" -> <<"S", "L">>
      [] id = "SR" -> <<"S", "R">>
      [] id = "MONO" -> <<"M", "O", "N", "O">>
      [] id = "UNKNOWN" -> <<"U", "N", "K", "N", "O", "W", "N">>

\* The position a word of a channel map text names (names are
\* case-insensitive), or "invalid".
channel_name2id(w) ==
    CASE w \in Positions -> w
      [] w = "fl" -> "FL"
      [] w = "fr" -> "FR"
      [] w = "mono" -> "MONO"
      [] OTHER -> "invalid"

\* struct channel_map map = CHANNEL_MAP_INIT
CHANNEL_MAP_INIT == [channels |-> <<0, 0>>, map |-> <<>>]

\* channel_map_parse(str, &map): "[ FL, FR ]" or "FL,FR", blanks ignored.  A
\* text that is not a channel map of at most MAX_CHANNELS positions is
\* refused and leaves the map as it was.
channel_map_parse(text, map) ==
    LET t1 == SelectSeq(text, LAMBDA w : w # " ")
        t2 == IF Len(t1) >= 2 /\ t1[1] = "[" /\ t1[Len(t1)] = "]"
              THEN SubSeq(t1, 2, Len(t1) - 1) ELSE t1
        n == (Len(t2) + 1) \div 2
        ok == /\ Len(t2) % 2 = 1
              /\ n <= MAX_CHANNELS
              /\ \A i \in 1..Len(t2) :
                    IF i % 2 = 1 THEN channel_name2id(t2[i]) # "invalid"
                    ELSE t2[i] = ","
    IN  IF ok THEN [channels |-> ToU32(n),
                    map |-> [i \in 1..n |-> channel_name2id(t2[2 * i - 1])]]
        ELSE map

\* impl->defs: the daemon's default sample spec and channel map.
Defs == [channels |-> ToU32(2), map |-> [channels |-> ToU32(2), map |-> <<"FL", "FR">>]]

\* The values the argument string gives the key channels.
ChannelsArgs ==
    { NsNULL, <<"-", "1">>, <<"x">> } \cup
    { Dec(n) : n \in {0, 1, 2, 3, MAX_CHANNELS, MAX_CHANNELS + 1} }

\* The values the argument string gives the key channel_map.
ChannelMapArgs ==
    { NsNULL,
      <<"[", " ", "FL", ",", " ", "FR", " ", "]">>,
      <<"fl", ",", "fr">>,
      <<"mono">>,
      <<"FL", ",", "FR", ",", "LFE">>,
      <<"FC", ",", "UNKNOWN">>,
      <<"FL", ",", ",">>,
      <<"XX">>,
      [i \in 1..(2 * MAX_CHANNELS - 1) |-> IF i % 2 = 1 THEN "MONO" ELSE ","],
      [i \in 1..(2 * MAX_CHANNELS + 1) |-> IF i % 2 = 1 THEN "FL" ELSE ","] }

SinkNameArgs == { NsNULL, <<"silence">> }

Arguments ==
    { [sink_name |-> n, channels |-> c, channel_map |-> m] :
        n \in SinkNameArgs, c \in ChannelsArgs, m \in ChannelMapArgs }

\* The allocation that fails in a call of the factory.
NsFailures == {"none", "props", "module"}

\* 0xffffffff, the id that names no object.
SPA_ID_INVALID == << Half - 1, Half - 1 >>
\* The ids the daemon gives to the globals it makes.
GlobalIds == { ToU32(34), ToU32(35) }
\* The code that may call pw_proxy_destroy: the three places of this file, and
\* the core, which owns the proxy.
Callers == {"removed", "error", "unload", "core"}

(* ------------------------------- state --------------------------------- *)

VARIABLES
    argv,            \* the options getopt_long has not returned yet
    pc,              \* the loop thread's position in main / setup_streams
    res,             \* main's res
    ret,             \* the value main returned (read when pc = "exited")
    exit_via,        \* how main returned: "none" | "help" | "version" |
                     \*   "usage" | "exit" (the exit label)
    loop,            \* data.loop:    "null" | "live" | "destroyed"
    context,         \* data.context: "null" | "live" | "destroyed"
    core,            \* data.core:    "null" | "live" | "destroyed"
    running,         \* the main loop's running flag
    loop_ran,        \* pw_main_loop_run was entered
    opt_group_name,  \* data.opt_group_name
    opt_channel_map, \* data.opt_channel_map
    opt_remote,      \* opt_remote
    channels,        \* data.channels
    latency,         \* data.latency, a uint32_t as <<hi, lo>>
    latency_ms,      \* atoi(optarg) of the last -l option (0 without one)
    props_ptr,       \* data.capture_props / data.playback_props is non-NULL
    dict,            \* the contents of the two property dictionaries
    dict_state,      \* "none" | "main" | "stream" | "freed": who holds each
    stream,          \* data.capture / data.playback:
                     \*   "null" | "unconnected" | "connected" | "destroyed"
    stream_props,    \* the dictionary each pw_stream_new call was handed
    setup,           \* setup_streams: "none" | "ok" | "error"
    built,           \* components in the order they were constructed
    torn,            \* components in the order they were torn down
    last_ev,         \* the last signal or core error dispatched
    nbufs,           \* buffers per stream negotiated by the daemon
    rt_pc,           \* the realtime thread's position in capture_process
    rt_in,           \* capture_process's in
    rt_out,          \* capture_process's out
    owner,           \* per buffer: "daemon" | "engine"
    desc,            \* per buffer: the buffer whose memory *b->buffer points at
    nq,              \* per buffer: queue calls in this capture_process call
    qto,             \* per buffer: the stream this call queued it to
    qdesc,           \* per buffer: its descriptor when this call queued it
    tickq,           \* per stream: queue calls in this capture_process call
    in_desc0,        \* the descriptor of in when it was dequeued
    out_desc0,       \* the descriptor of out when it was dequeued
    null_deref,      \* capture_process used a NULL stream pointer
    warns,           \* the pw_log_warn calls of this capture_process call
    tick_failed      \* an earlier capture_process call had a failed dequeue

\* create_module_null_sink (module-null-sink.c).
VARIABLES
    ns_pc,           \* position in create_module_null_sink ("idle": not called)
    ns_argument,     \* the keys of the argument string: sink_name, channels,
                     \*   channel_map
    ns_fail,         \* the allocation that fails in this call, or "none"
    ns_props,        \* the contents of props
    ns_props_state,  \* props: "null" | "live" | "module" | "freed"
    ns_channels,     \* channels, a uint32_t as <<hi, lo>>
    ns_map,          \* map: [channels, map]
    ns_res,          \* res
    ns_errno,        \* errno
    ns_module,       \* the return value: "none" (not returned) | "null" | "module"
    ns_oob           \* the arrays written past their end: "map", "position"

\* struct module_null_sink_data, the proxy it points to, and what the module
\* has asked of the daemon (module-null-sink.c, lines 25-99).
VARIABLES
    d_proxy,         \* d->proxy: "null" | "proxy"
    d_listener,      \* d->listener is hooked on the proxy
    d_global_id,     \* d->global_id, a uint32_t as <<hi, lo>>
    proxy,           \* the proxy object: "none" | "live" | "destroyed"
    load_ret,        \* module_null_sink_load: "none" (not called) | "ok" | "failed"
    unloads,         \* the calls of module_null_sink_unload
    bound_ids,       \* the ids delivered by bound events, in order
    loaded,          \* the results given to module_emit_loaded, in order
    destroy_calls,   \* the pw_proxy_destroy calls: <<caller, argument>>, the
                     \*   argument being "null", "live" or "destroyed"
    registry_destroys \* the ids given to pw_registry_destroy, in order

main_vars == << argv, pc, res, ret, exit_via, loop, context, core, running, loop_ran,
                opt_group_name, opt_channel_map, opt_remote, channels, latency,
                latency_ms, props_ptr, dict, dict_state, setup, built, torn, last_ev >>
stream_vars == << stream, stream_props >>
rt_vars == << rt_pc, rt_in, rt_out, owner, desc, nq, qto, qdesc, tickq, in_desc0,
              out_desc0, null_deref, warns, tick_failed >>
loopback_vars == << main_vars, stream_vars, rt_vars, nbufs >>
ns_vars == << ns_pc, ns_argument, ns_fail, ns_props, ns_props_state, ns_channels,
              ns_map, ns_res, ns_errno, ns_module, ns_oob >>
d_vars == << d_proxy, d_listener, d_global_id, proxy, load_ret, unloads, bound_ids,
             loaded, destroy_calls, registry_destroys >>
vars == << loopback_vars, ns_vars, d_vars >>

opt_vars == << opt_group_name, opt_channel_map, opt_remote, channels, latency,
              latency_ms >>

Pool(s) == { b \in Buffers : StreamOf(b) = s /\ b[2] <= nbufs }

\* struct data data = { 0 } and locals, at entry to main (lines 195-212).
InitState ==
    /\ pc = "main"
    /\ res = 0 - 1
    /\ ret = 0
    /\ exit_via = "none"
    /\ loop = "null" /\ context = "null" /\ core = "null"
    /\ running = FALSE /\ loop_ran = FALSE
    /\ opt_group_name = NULLSTR /\ opt_channel_map = NULLSTR
    /\ opt_remote = NULLSTR
    /\ channels = 0 /\ latency = <<0, 0>> /\ latency_ms = 0
    /\ props_ptr = [d \in Dirs |-> FALSE]
    /\ dict = [d \in Dirs |-> EmptyDict]
    /\ dict_state = [d \in Dirs |-> "none"]
    /\ stream = [d \in Dirs |-> "null"]
    /\ stream_props = [d \in Dirs |-> EmptyDict]
    /\ setup = "none"
    /\ built = <<>> /\ torn = <<>>
    /\ last_ev = NoEvent
    /\ rt_pc = "idle" /\ rt_in = NoBuf /\ rt_out = NoBuf
    /\ owner = [b \in Buffers |-> "daemon"]
    /\ desc = [b \in Buffers |-> b]
    /\ nq = [b \in Buffers |-> 0]
    /\ qto = [b \in Buffers |-> "none"]
    /\ qdesc = [b \in Buffers |-> NoBuf]
    /\ tickq = [d \in Dirs |-> 0]
    /\ in_desc0 = NoBuf /\ out_desc0 = NoBuf
    /\ null_deref = FALSE
    /\ warns = <<>>
    /\ tick_failed = FALSE

\* create_module_null_sink has not been called.
NsIdle ==
    /\ ns_pc = "idle"
    /\ ns_argument = [k \in ArgKeys |-> NsNULL]
    /\ ns_fail = "none"
    /\ ns_props = NsNoProps
    /\ ns_props_state = "null"
    /\ ns_channels = <<0, 0>>
    /\ ns_map = CHANNEL_MAP_INIT
    /\ ns_res = 0
    /\ ns_errno = 0
    /\ ns_module = "none"
    /\ ns_oob = {}

\* No module has been made: there is no module_null_sink_data and no proxy.
NoModule ==
    /\ d_proxy = "null"
    /\ d_listener = FALSE
    /\ d_global_id = <<0, 0>>
    /\ proxy = "none"
    /\ load_ret = "none"
    /\ unloads = 0
    /\ bound_ids = <<>>
    /\ loaded = <<>>
    /\ destroy_calls = <<>>
    /\ registry_destroys = <<>>

\* Every command line up to MaxArgs options with the smallest buffer pool,
\* and the default command line with every pool size up to MaxBuffers.
Init ==
    /\ InitState
    /\ NsIdle
    /\ NoModule
    /\ \/ argv \in ArgvSet /\ nbufs = 1
       \/ argv = <<>> /\ nbufs \in 1..MaxBuffers

(* --------------------------- main: start-up ---------------------------- *)

\* Lines 214-227: pw_init, the defaults, the two pw_properties_new calls.
main_init ==
    /\ pc = "main"
    /\ channels' = DEFAULT_CHANNELS
    /\ opt_channel_map' = DEFAULT_CHANNEL_MAP
    /\ opt_group_name' = CNAME
    /\ \E okc \in BOOLEAN, okp \in BOOLEAN :
          /\ props_ptr' = [d \in Dirs |-> IF d = "capture" THEN okc ELSE okp]
          /\ dict_state' = [d \in Dirs |->
                               IF props_ptr'[d] THEN "main" ELSE "none"]
          /\ pc' = IF okc /\ okp THEN "getopt" ELSE "exit_core"
    /\ UNCHANGED << argv, res, ret, exit_via, loop, context, core, running,
                    loop_ran, opt_remote, latency, latency_ms, dict, setup,
                    built, torn, last_ev >>
    /\ UNCHANGED << stream_vars, rt_vars, nbufs >>
    /\ UNCHANGED << ns_vars, d_vars >>

\* The switch of lines 230-272 on the two dictionaries.
GetoptDict(d, o) ==
    CASE o.opt = "C" ->
            [d EXCEPT !["capture"] =
                pw_properties_set(@, PW_KEY_NODE_TARGET, o.sarg)]
      [] o.opt = "P" ->
            [d EXCEPT !["playback"] =
                pw_properties_set(@, PW_KEY_NODE_TARGET, o.sarg)]
      [] o.opt = "i" ->
            [d EXCEPT !["capture"] = pw_properties_update_string(@, o.oarg)]
      [] o.opt = "o" ->
            [d EXCEPT !["playback"] = pw_properties_update_string(@, o.oarg)]
      [] OTHER -> d

\* One turn of the getopt_long loop, lines 229-273, on the next option.
main_getopt ==
    /\ pc = "getopt"
    /\ argv # <<>>
    /\ LET o == Head(argv) IN
          /\ argv' = Tail(argv)
          /\ pc' = IF o.opt \in {"h", "V", "?"} THEN "exited" ELSE "getopt"
          /\ ret' = CASE o.opt \in {"h", "V"} -> 0
                      [] o.opt = "?" -> 0 - 1
                      [] OTHER -> ret
          /\ opt_remote' = IF o.opt = "r" THEN o.sarg ELSE opt_remote
          /\ opt_group_name' = IF o.opt = "g" THEN o.sarg ELSE opt_group_name
          /\ channels' = IF o.opt = "c" THEN atoi(o.narg) ELSE channels
          /\ opt_channel_map' = IF o.opt = "m" THEN o.sarg ELSE opt_channel_map
          /\ latency_ms' = IF o.opt = "l" THEN atoi(o.narg) ELSE latency_ms
          /\ latency' \in IF o.opt = "l" THEN LatencyFrames(atoi(o.narg))
                          ELSE {latency}
          /\ exit_via' = CASE o.opt = "h" -> "help"
                           [] o.opt = "V" -> "version"
                           [] o.opt = "?" -> "usage"
                           [] OTHER -> exit_via
          /\ dict' = GetoptDict(dict, o)
    /\ UNCHANGED << res, loop, context, core, running, loop_ran, props_ptr,
                    dict_state, setup, built, torn, last_ev >>
    /\ UNCHANGED << stream_vars, rt_vars, nbufs >>
    /\ UNCHANGED << ns_vars, d_vars >>

\* getopt_long returns -1: the loop of line 229 ends.
main_getopt_end ==
    /\ pc = "getopt"
    /\ argv = <<>>
    /\ pc' = "loop_new"
    /\ UNCHANGED << argv, res, ret, exit_via, loop, context, core, running, loop_ran,
                    opt_vars, props_ptr, dict, dict_state, setup, built, torn,
                    last_ev >>
    /\ UNCHANGED << stream_vars, rt_vars, nbufs >>
    /\ UNCHANGED << ns_vars, d_vars >>

\* Lines 275-283: pw_main_loop_new and the two signal sources.
main_loop_new ==
    /\ pc = "loop_new"
    /\ \E ok \in BOOLEAN :
          IF ok
          THEN /\ loop' = "live"
               /\ built' = Append(built, "loop")
               /\ pc' = "context_new"
          ELSE /\ pc' = "exit_core"
               /\ UNCHANGED << loop, built >>
    /\ UNCHANGED << argv, res, ret, exit_via, context, core, running, loop_ran, opt_vars,
                    props_ptr, dict, dict_state, setup, torn, last_ev >>
    /\ UNCHANGED << stream_vars, rt_vars, nbufs >>
    /\ UNCHANGED << ns_vars, d_vars >>

\* Lines 285-289: pw_context_new.
main_context_new ==
    /\ pc = "context_new"
    /\ \E ok \in BOOLEAN :
          IF ok
          THEN /\ context' = "live"
               /\ built' = Append(built, "context")
               /\ pc' = "set_props"
          ELSE /\ pc' = "exit_core"
               /\ UNCHANGED << context, built >>
    /\ UNCHANGED << argv, res, ret, exit_via, loop, core, running, loop_ran, opt_vars,
                    props_ptr, dict, dict_state, setup, torn, last_ev >>
    /\ UNCHANGED << stream_vars, rt_vars, nbufs >>
    /\ UNCHANGED << ns_vars, d_vars >>

\* SetGroup with the playback write left out.
SetGroup_CaptureOnly(d, name) ==
    IF name # NULLSTR
    THEN [d EXCEPT !["capture"] = pw_properties_set(@, PW_KEY_NODE_GROUP, name)]
    ELSE d

\* SetGroup writing only where the key is not yet set, so an overlay wins.
SetGroup_IfUnset(d, name) ==
    IF name # NULLSTR
    THEN [x \in Dirs |->
             IF d[x][PW_KEY_NODE_GROUP] = NULLSTR
             THEN pw_properties_set(d[x], PW_KEY_NODE_GROUP, name)
             ELSE d[x]]
    ELSE d

\* Lines 291-294: node.group is written into both dictionaries.
SetGroup(d, name) ==
    IF name # NULLSTR
    THEN [x \in Dirs |-> pw_properties_set(d[x], PW_KEY_NODE_GROUP, name)]
    ELSE d

\* Lines 295-300: node.latency is written into both dictionaries.
SetLatency(d, lat) ==
    IF lat # <<0, 0>>
    THEN [x \in Dirs |->
             pw_properties_set(d[x], PW_KEY_NODE_LATENCY, FormatLatency(lat))]
    ELSE d

main_set_props ==
    /\ pc = "set_props"
    /\ dict' = SetLatency(SetGroup(dict, opt_group_name), latency)
    /\ pc' = "connect"
    /\ UNCHANGED << argv, res, ret, exit_via, loop, context, core, running, loop_ran,
                    opt_vars, props_ptr, dict_state, setup, built, torn,
                    last_ev >>
    /\ UNCHANGED << stream_vars, rt_vars, nbufs >>
    /\ UNCHANGED << ns_vars, d_vars >>

\* Lines 302-314: pw_context_connect and the core listener.
main_connect ==
    /\ pc = "connect"
    /\ \E ok \in BOOLEAN :
          IF ok
          THEN /\ core' = "live"
               /\ built' = Append(built, "core")
               /\ pc' = "setup_capture_new"
          ELSE /\ pc' = "exit_core"
               /\ UNCHANGED << core, built >>
    /\ UNCHANGED << argv, res, ret, exit_via, loop, context, running, loop_ran, opt_vars,
                    props_ptr, dict, dict_state, setup, torn, last_ev >>
    /\ UNCHANGED << stream_vars, rt_vars, nbufs >>
    /\ UNCHANGED << ns_vars, d_vars >>

(* ----------------------------- setup_streams --------------------------- *)

\* pw_stream_new takes the dictionary over: the stream holds it, or it is
\* freed when no stream could be made.
pw_stream_new_dict(st, d, ok) == [st EXCEPT ![d] = IF ok THEN "stream" ELSE "freed"]

\* Line 316: main calls setup_streams and goes on to line 318 whatever it
\* returned.
AfterSetup(r) == "run"

\* Lines 103-111: the capture stream and its listener.
setup_capture_new ==
    /\ pc = "setup_capture_new"
    /\ \E ok \in BOOLEAN :
          /\ stream' = [stream EXCEPT !["capture"] =
                           IF ok THEN "unconnected" ELSE "null"]
          /\ stream_props' = [stream_props EXCEPT !["capture"] =
                                 IF ok THEN dict["capture"] ELSE @]
          /\ dict_state' = pw_stream_new_dict(dict_state, "capture", ok)
          /\ props_ptr' = [props_ptr EXCEPT !["capture"] = FALSE]
          /\ setup' = IF ok THEN setup ELSE "error"
          /\ pc' = IF ok THEN "setup_playback_new" ELSE AfterSetup("error")
    /\ UNCHANGED << argv, res, ret, exit_via, loop, context, core, running, loop_ran,
                    opt_vars, dict, built, torn, last_ev >>
    /\ UNCHANGED << rt_vars, nbufs >>
    /\ UNCHANGED << ns_vars, d_vars >>

\* setup_streams going on to connect the capture stream although the
\* playback stream could not be made.
AfterPlaybackNew_Unchecked(ok) == "setup_capture_connect"

\* Lines 116-117: if (data->playback == NULL) return -errno.
AfterPlaybackNew(ok) == IF ok THEN "setup_capture_connect" ELSE AfterSetup("error")

\* Lines 113-121: the playback stream and its listener.
setup_playback_new ==
    /\ pc = "setup_playback_new"
    /\ \E ok \in BOOLEAN :
          /\ stream' = [stream EXCEPT !["playback"] =
                           IF ok THEN "unconnected" ELSE "null"]
          /\ stream_props' = [stream_props EXCEPT !["playback"] =
                                 IF ok THEN dict["playback"] ELSE @]
          /\ dict_state' = pw_stream_new_dict(dict_state, "playback", ok)
          /\ props_ptr' = [props_ptr EXCEPT !["playback"] = FALSE]
          /\ setup' = IF ok THEN setup ELSE "error"
          /\ pc' = AfterPlaybackNew(ok)
    /\ UNCHANGED << argv, res, ret, exit_via, loop, context, core, running, loop_ran,
                    opt_vars, dict, built, torn, last_ev >>
    /\ UNCHANGED << rt_vars, nbufs >>
    /\ UNCHANGED << ns_vars, d_vars >>

\* Lines 123-137: the format and pw_stream_connect of the capture stream.
setup_capture_connect ==
    /\ pc = "setup_capture_connect"
    /\ \E ok \in BOOLEAN :
          /\ stream' = [stream EXCEPT !["capture"] =
                           IF ok THEN "connected" ELSE @]
          /\ setup' = IF ok THEN setup ELSE "error"
          /\ pc' = IF ok THEN "setup_playback_connect" ELSE AfterSetup("error")
    /\ UNCHANGED << argv, res, ret, exit_via, loop, context, core, running, loop_ran,
                    opt_vars, props_ptr, dict, dict_state, built, torn,
                    last_ev >>
    /\ UNCHANGED << stream_props, rt_vars, nbufs >>
    /\ UNCHANGED << ns_vars, d_vars >>

\* Lines 139-148: pw_stream_connect of the playback stream, and return 0.
setup_playback_connect ==
    /\ pc = "setup_playback_connect"
    /\ \E ok \in BOOLEAN :
          /\ stream' = [stream EXCEPT !["playback"] =
                           IF ok THEN "connected" ELSE @]
          /\ setup' = IF ok THEN "ok" ELSE "error"
          /\ pc' = AfterSetup(setup')
    /\ UNCHANGED << argv, res, ret, exit_via, loop, context, core, running, loop_ran,
                    opt_vars, props_ptr, dict, dict_state, built, torn,
                    last_ev >>
    /\ UNCHANGED << stream_props, rt_vars, nbufs >>
    /\ UNCHANGED << ns_vars, d_vars >>

(* ---------------------------- the main loop ---------------------------- *)

\* Line 318: pw_main_loop_run is entered.
main_run ==
    /\ pc = "run"
    /\ running' = TRUE
    /\ loop_ran' = TRUE
    /\ pc' = "running"
    /\ UNCHANGED << argv, res, ret, exit_via, loop, context, core, opt_vars, props_ptr,
                    dict, dict_state, setup, built, torn, last_ev >>
    /\ UNCHANGED << stream_vars, rt_vars, nbufs >>
    /\ UNCHANGED << ns_vars, d_vars >>

\* pw_main_loop_quit(d->loop): the running flag after the call.
pw_main_loop_quit(r) == FALSE

\* A signal handler that leaves the loop running.
do_quit_Ignored(r) == r

\* Line 170: what do_quit does to the running flag.
do_quit_running(r) == pw_main_loop_quit(r)

\* Lines 167-171: the handler of SIGINT and SIGTERM.
do_quit ==
    /\ pc = "running"
    /\ \E sig \in Signals :
          last_ev' = [kind |-> "signal", id |-> sig, res |-> 0]
    /\ running' = do_quit_running(running)
    /\ UNCHANGED << argv, pc, res, ret, exit_via, loop, context, core, loop_ran, opt_vars,
                    props_ptr, dict, dict_state, setup, built, torn >>
    /\ UNCHANGED << stream_vars, rt_vars, nbufs >>
    /\ UNCHANGED << ns_vars, d_vars >>

\* IsFatal without the test of the object id.
IsFatal_AnyObject(id, r) == r = 0 - EPIPE

\* Line 158: the errors on which on_core_error quits the loop.
IsFatal(id, r) == id = PW_ID_CORE /\ r = 0 - EPIPE

\* Lines 151-160: the core error listener.
on_core_error ==
    /\ pc = "running"
    /\ \E id \in ErrorIds, r \in ErrorCodes :
          /\ last_ev' = [kind |-> "error", id |-> id, res |-> r]
          /\ running' = IF IsFatal(id, r) THEN pw_main_loop_quit(running)
                        ELSE running
    /\ UNCHANGED << argv, pc, res, ret, exit_via, loop, context, core, loop_ran, opt_vars,
                    props_ptr, dict, dict_state, setup, built, torn >>
    /\ UNCHANGED << stream_vars, rt_vars, nbufs >>
    /\ UNCHANGED << ns_vars, d_vars >>

\* Lines 86-93: the daemon changes the format of a connected stream.  Neither
\* in_stream_events nor out_stream_events holds a handler for it, so the
\* loop dispatches the event to nothing.
stream_format_changed ==
    /\ pc = "running"
    /\ \E d \in Dirs : stream[d] = "connected"
    /\ last_ev' = [kind |-> "format", id |-> 0, res |-> 0]
    /\ UNCHANGED << argv, pc, res, ret, exit_via, loop, context, core, running,
                    loop_ran, opt_vars, props_ptr, dict, dict_state, setup, built,
                    torn >>
    /\ UNCHANGED << stream_vars, rt_vars, nbufs >>
    /\ UNCHANGED << ns_vars, d_vars >>

\* Lines 318-320: pw_main_loop_run returns once running is false; res = 0.
main_loop_return ==
    /\ pc = "running"
    /\ ~running
    /\ res' = 0
    /\ last_ev' = NoEvent
    /\ pc' = "exit_core"
    /\ UNCHANGED << argv, ret, exit_via, loop, context, core, running, loop_ran,
                    opt_vars,
                    props_ptr, dict, dict_state, setup, built, torn >>
    /\ UNCHANGED << stream_vars, rt_vars, nbufs >>
    /\ UNCHANGED << ns_vars, d_vars >>

(* ------------------------------ main: exit ----------------------------- *)

\* pw_core_disconnect destroys the streams of the core, and with each stream
\* the dictionary it holds.
pw_core_disconnect_streams(st) ==
    [d \in Dirs |-> IF st[d] \in {"unconnected", "connected"} THEN "destroyed"
                    ELSE st[d]]

pw_core_disconnect_dicts(ds) ==
    [d \in Dirs |-> IF ds[d] = "stream" THEN "freed" ELSE ds[d]]

\* Lines 322-323.  Destroying a connected stream waits for the realtime
\* callback in flight to return.
main_exit_core ==
    /\ pc = "exit_core"
    /\ IF core = "live"
       THEN /\ rt_pc = "idle"
            /\ core' = "destroyed"
            /\ torn' = Append(torn, "core")
            /\ stream' = pw_core_disconnect_streams(stream)
            /\ dict_state' = pw_core_disconnect_dicts(dict_state)
       ELSE UNCHANGED << core, torn, stream, dict_state >>
    /\ pc' = "exit_context"
    /\ UNCHANGED << argv, res, ret, exit_via, loop, context, running, loop_ran, opt_vars,
                    props_ptr, dict, setup, built, last_ev >>
    /\ UNCHANGED << stream_props, rt_vars, nbufs >>
    /\ UNCHANGED << ns_vars, d_vars >>

\* Lines 324-325.
main_exit_context ==
    /\ pc = "exit_context"
    /\ IF context = "live"
       THEN /\ context' = "destroyed"
            /\ torn' = Append(torn, "context")
       ELSE UNCHANGED << context, torn >>
    /\ pc' = "exit_loop"
    /\ UNCHANGED << argv, res, ret, exit_via, loop, core, running, loop_ran, opt_vars,
                    props_ptr, dict, dict_state, setup, built, last_ev >>
    /\ UNCHANGED << stream_vars, rt_vars, nbufs >>
    /\ UNCHANGED << ns_vars, d_vars >>

\* Lines 326-327.
main_exit_loop ==
    /\ pc = "exit_loop"
    /\ IF loop = "live"
       THEN /\ loop' = "destroyed"
            /\ torn' = Append(torn, "loop")
       ELSE UNCHANGED << loop, torn >>
    /\ pc' = "exit_props"
    /\ UNCHANGED << argv, res, ret, exit_via, context, core, running, loop_ran, opt_vars,
                    props_ptr, dict, dict_state, setup, built, last_ev >>
    /\ UNCHANGED << stream_vars, rt_vars, nbufs >>
    /\ UNCHANGED << ns_vars, d_vars >>

\* Lines 328-334: the dictionaries main still points at are freed; return res.
main_exit_props ==
    /\ pc = "exit_props"
    /\ dict_state' = [d \in Dirs |-> IF props_ptr[d] THEN "freed"
                                     ELSE dict_state[d]]
    /\ ret' = res
    /\ exit_via' = "exit"
    /\ pc' = "exited"
    /\ UNCHANGED << argv, res, loop, context, core, running, loop_ran, opt_vars,
                    props_ptr, dict, setup, built, torn, last_ev >>
    /\ UNCHANGED << stream_vars, rt_vars, nbufs >>
    /\ UNCHANGED << ns_vars, d_vars >>

\* The exit status the parent sees: the low 8 bits of main's return value.
ExitStatus == ret % Byte

(* ---------------------- realtime: capture_process ---------------------- *)

\* pw_stream_dequeue_buffer: a buffer the daemon holds for a connected
\* stream, or NULL (none ready, or the stream is not connected).
pw_stream_dequeue_buffer(s) ==
    IF stream[s] = "connected"
    THEN { b \in Pool(s) : owner[b] = "daemon" } \cup {NoBuf}
    ELSE {NoBuf}

\* pw_stream_queue_buffer(s, b): the buffer goes back to the daemon as it is.
pw_stream_queue_buffer(s, b) ==
    /\ owner' = [owner EXCEPT ![b] = "daemon"]
    /\ nq' = [nq EXCEPT ![b] = IF @ < 2 THEN @ + 1 ELSE @]
    /\ qto' = [qto EXCEPT ![b] = s]
    /\ qdesc' = [qdesc EXCEPT ![b] = desc[b]]
    /\ tickq' = [tickq EXCEPT ![s] = IF @ < 2 THEN @ + 1 ELSE @]

\* A dequeue that warns whatever it returned.
WarnIfNull_Always(b, msg, log) == Append(log, msg)

\* Lines 71-72 and 74-75: if (... == NULL) pw_log_warn(msg).
WarnIfNull(b, msg, log) == IF b = NoBuf THEN Append(log, msg) ELSE log

\* Lines 66-72: entry, and in = pw_stream_dequeue_buffer(data->capture).  The
\* process callback is invoked for the connected capture stream; the record of
\* what a call queued starts empty.
cp_dequeue_in ==
    /\ rt_pc = "idle"
    /\ stream["capture"] = "connected"
    /\ \E b \in pw_stream_dequeue_buffer("capture") :
          /\ rt_in' = b
          /\ in_desc0' = IF b # NoBuf THEN desc[b] ELSE NoBuf
          /\ owner' = IF b # NoBuf THEN [owner EXCEPT ![b] = "engine"] ELSE owner
          /\ warns' = WarnIfNull(b, "out of capture buffers", <<>>)
    /\ nq' = [b \in Buffers |-> 0]
    /\ qto' = [b \in Buffers |-> "none"]
    /\ qdesc' = [b \in Buffers |-> NoBuf]
    /\ tickq' = [d \in Dirs |-> 0]
    /\ rt_pc' = "dequeue_out"
    /\ UNCHANGED << rt_out, desc, out_desc0, null_deref, tick_failed >>
    /\ UNCHANGED << main_vars, stream_vars, nbufs >>
    /\ UNCHANGED << ns_vars, d_vars >>

\* Lines 74-75: out = pw_stream_dequeue_buffer(data->playback).
cp_dequeue_out ==
    /\ rt_pc = "dequeue_out"
    /\ \E b \in pw_stream_dequeue_buffer("playback") :
          /\ rt_out' = b
          /\ out_desc0' = IF b # NoBuf THEN desc[b] ELSE NoBuf
          /\ owner' = IF b # NoBuf THEN [owner EXCEPT ![b] = "engine"] ELSE owner
          /\ warns' = WarnIfNull(b, "out of playback buffers", warns)
    /\ null_deref' = (null_deref \/ stream["playback"] = "null")
    /\ rt_pc' = "forward"
    /\ UNCHANGED << rt_in, desc, nq, qto, qdesc, tickq, in_desc0, tick_failed >>
    /\ UNCHANGED << main_vars, stream_vars, nbufs >>
    /\ UNCHANGED << ns_vars, d_vars >>

\* Line 77: both dequeues succeeded.
Forward(i, o) == i # NoBuf /\ o # NoBuf

\* CopyDescriptor with the assignment turned round.
CopyDescriptor_Reversed(d, i, o) == [d EXCEPT ![i] = d[o]]

\* Line 78: *out->buffer = *in->buffer.
CopyDescriptor(d, i, o) == [d EXCEPT ![o] = d[i]]

\* Lines 77-78.
cp_forward ==
    /\ rt_pc = "forward"
    /\ desc' = IF Forward(rt_in, rt_out) THEN CopyDescriptor(desc, rt_in, rt_out)
               ELSE desc
    /\ rt_pc' = "queue_in"
    /\ UNCHANGED << rt_in, rt_out, owner, nq, qto, qdesc, tickq, in_desc0,
                    out_desc0, null_deref, warns, tick_failed >>
    /\ UNCHANGED << main_vars, stream_vars, nbufs >>
    /\ UNCHANGED << ns_vars, d_vars >>

\* The in buffer queued to the playback stream.
InQueueStream_Playback == "playback"

\* The out buffer queued to the capture stream.
OutQueueStream_Capture == "capture"

\* The stream arguments of the two pw_stream_queue_buffer calls.
InQueueStream == "capture"

OutQueueStream == "playback"

\* Lines 80-81.
cp_queue_in ==
    /\ rt_pc = "queue_in"
    /\ IF rt_in # NoBuf
       THEN pw_stream_queue_buffer(InQueueStream, rt_in)
       ELSE UNCHANGED << owner, nq, qto, qdesc, tickq >>
    /\ rt_pc' = "queue_out"
    /\ UNCHANGED << rt_in, rt_out, desc, in_desc0, out_desc0, null_deref, warns,
                    tick_failed >>
    /\ UNCHANGED << main_vars, stream_vars, nbufs >>
    /\ UNCHANGED << ns_vars, d_vars >>

\* Lines 82-84: the last queue call and the return.
cp_queue_out ==
    /\ rt_pc = "queue_out"
    /\ IF rt_out # NoBuf
       THEN pw_stream_queue_buffer(OutQueueStream, rt_out)
       ELSE UNCHANGED << owner, nq, qto, qdesc, tickq >>
    /\ rt_pc' = "idle"
    /\ tick_failed' = (tick_failed \/ warns # <<>>)
    /\ UNCHANGED << rt_in, rt_out, desc, in_desc0, out_desc0, null_deref, warns >>
    /\ UNCHANGED << main_vars, stream_vars, nbufs >>
    /\ UNCHANGED << ns_vars, d_vars >>

capture_process ==
    \/ cp_dequeue_in
    \/ cp_dequeue_out
    \/ cp_forward
    \/ cp_queue_in
    \/ cp_queue_out

(* ------------------- null-sink: create_module_null_sink ---------------- *)

ns_locals == << ns_channels, ns_map, ns_res, ns_errno, ns_module, ns_oob >>

\* Lines 129-135: props = pw_properties_new_dict(info); add_props(argument).
ns_props_new ==
    /\ ns_pc = "props_new"
    /\ IF ns_fail = "props"
       THEN /\ ns_res' = 0 - EINVAL
            /\ ns_pc' = "out"
            /\ UNCHANGED << ns_props, ns_props_state >>
       ELSE /\ ns_props' = add_props(module_null_sink_info, ns_argument)
            /\ ns_props_state' = "live"
            /\ ns_pc' = "sink_name"
            /\ UNCHANGED ns_res
    /\ UNCHANGED << ns_argument, ns_fail, ns_channels, ns_map, ns_errno, ns_module,
                    ns_oob >>
    /\ UNCHANGED << loopback_vars, d_vars >>

\* Lines 137-146: sink_name becomes node.name (default "null").  The
\* arguments drawn hold no sink_properties.
ns_sink_name ==
    /\ ns_pc = "sink_name"
    /\ ns_props' =
          IF ns_props["sink_name"] # NsNULL
          THEN [ns_props EXCEPT ![PW_KEY_NODE_NAME] = ns_props["sink_name"],
                                !["sink_name"] = NsNULL]
          ELSE [ns_props EXCEPT ![PW_KEY_NODE_NAME] = <<"null">>]
    /\ ns_pc' = "channels"
    /\ UNCHANGED << ns_argument, ns_fail, ns_props_state >>
    /\ UNCHANGED ns_locals
    /\ UNCHANGED << loopback_vars, d_vars >>

\* Lines 147-154: channels = atoi(str), or the daemon's default.
ns_get_channels ==
    /\ ns_pc = "channels"
    /\ IF ns_props["channels"] # NsNULL
       THEN /\ ns_channels' = ToU32(atoi(ns_props["channels"]))
            /\ ns_props' = [ns_props EXCEPT
                              ![SPA_KEY_AUDIO_CHANNELS] = ns_props["channels"],
                              !["channels"] = NsNULL]
       ELSE /\ ns_channels' = Defs.channels
            /\ ns_props' = [ns_props EXCEPT
                              ![SPA_KEY_AUDIO_CHANNELS] = Dec(Defs.channels[2])]
    /\ ns_pc' = "channel_map"
    /\ UNCHANGED << ns_argument, ns_fail, ns_props_state, ns_map, ns_res, ns_errno,
                    ns_module, ns_oob >>
    /\ UNCHANGED << loopback_vars, d_vars >>

\* Lines 166-167: for (i = 0; i < channels; i++) map.map[i] = UNKNOWN.  The
\* positions the array holds afterwards; the writes for i >= MAX_CHANNELS land
\* outside it.
FillUnknown(ch) ==
    [i \in 1..(IF ch[1] = 0 /\ ch[2] <= MAX_CHANNELS THEN ch[2] ELSE MAX_CHANNELS)
       |-> SPA_AUDIO_CHANNEL_UNKNOWN]

MapOverrun(ch) == ch[1] # 0 \/ ch[2] > MAX_CHANNELS

\* Lines 155-170: the channel map is parsed from channel_map, or is the
\* daemon's default map when that has the right length, or is all UNKNOWN.
\* (The arguments drawn hold no rate.)  Writing past map.map is undefined:
\* the call faults, or goes on with the words past the array overwritten;
\* 2^16 words or more run off the stack.
ns_get_channel_map ==
    /\ ns_pc = "channel_map"
    /\ IF ns_props["channel_map"] # NsNULL
       THEN /\ ns_map' = channel_map_parse(ns_props["channel_map"], ns_map)
            /\ ns_props' = [ns_props EXCEPT !["channel_map"] = NsNULL]
            /\ ns_pc' = "check"
            /\ UNCHANGED ns_oob
       ELSE /\ UNCHANGED ns_props
            /\ IF ns_channels = Defs.map.channels
               THEN /\ ns_map' = Defs.map
                    /\ ns_pc' = "check"
                    /\ UNCHANGED ns_oob
               ELSE IF MapOverrun(ns_channels)
               THEN /\ ns_oob' = ns_oob \cup {"map"}
                    /\ \/ /\ ns_pc' = "crashed"
                          /\ ns_map' = [ns_map EXCEPT !.map = FillUnknown(ns_channels)]
                       \/ /\ ns_channels[1] = 0
                          /\ ns_pc' = "check"
                          /\ ns_map' = [channels |-> ns_channels,
                                        map |-> FillUnknown(ns_channels)]
               ELSE /\ ns_map' = [channels |-> ns_channels,
                                  map |-> FillUnknown(ns_channels)]
                    /\ ns_pc' = "check"
                    /\ UNCHANGED ns_oob
    /\ UNCHANGED << ns_argument, ns_fail, ns_props_state, ns_channels, ns_res,
                    ns_errno, ns_module >>
    /\ UNCHANGED << loopback_vars, d_vars >>

\* Mutation of MapMismatch: the lengths are never compared.
MapMismatch_Never(map, ch) == FALSE

\* Line 171: if (map.channels != channels)
MapMismatch(map, ch) == map.channels # ch

\* Lines 171-175: a map of another length than channels is refused.
ns_check ==
    /\ ns_pc = "check"
    /\ IF MapMismatch(ns_map, ns_channels)
       THEN ns_res' = 0 - EINVAL /\ ns_pc' = "out"
       ELSE ns_pc' = "position" /\ UNCHANGED ns_res
    /\ UNCHANGED << ns_argument, ns_fail, ns_props, ns_props_state, ns_channels,
                    ns_map, ns_errno, ns_module, ns_oob >>
    /\ UNCHANGED << loopback_vars, d_vars >>

\* snprintf(p, POSITION_WRITE, "%s%s", ...) of text at offset p of mem: at
\* most POSITION_WRITE - 1 characters and a NUL are stored; the return value
\* is the length of the whole text.
SnprintfStored(text) ==
    IF Len(text) < POSITION_WRITE THEN Len(text) ELSE POSITION_WRITE - 1

snprintf(mem, p, text) ==
    [i \in 1..Len(mem) |->
        IF i - 1 >= p /\ i - 1 < p + SnprintfStored(text) THEN text[i - p]
        ELSE IF i - 1 = p + SnprintfStored(text) THEN NUL
        ELSE mem[i]]

\* Lines 180-182: the loop over the positions ids[i..], writing at offset p.
\* The result is the memory and the number of bytes the writes reach.
RECURSIVE PositionWrites(_, _, _, _, _)
PositionWrites(ids, i, mem, p, top) ==
    IF i > Len(ids) THEN [mem |-> mem, top |-> top]
    ELSE LET text == (IF i = 1 THEN <<>> ELSE <<",">>) \o channel_id2name(ids[i])
         IN  PositionWrites(ids, i + 1, snprintf(mem, p, text), p + Len(text),
                            p + SnprintfStored(text) + 1)

\* The C string at the start of mem.
CString(mem) ==
    LET end == CHOOSE k \in 1..Len(mem) :
                  mem[k] = NUL /\ \A j \in 1..(k - 1) : mem[j] # NUL
    IN  SubSeq(mem, 1, end - 1)

\* The longest position name, and the memory from s on: the alloca'd
\* map.channels * 6 bytes and the stack that follows them.
LongestName == 7
Memory(n) == [i \in 1..(n * (LongestName + 1) + POSITION_WRITE) |-> Indeterminate]

\* Lines 177-184: audio.position is built in map.channels * 6 bytes.  A
\* position read from past the end of map.map is any position; a write past
\* the alloca'd bytes is undefined: the call faults, or goes on.
ns_position ==
    /\ ns_pc = "position"
    /\ IF ns_map.channels # <<0, 0>>
       THEN \E past \in [1..(ns_map.channels[2] - Len(ns_map.map)) -> Positions] :
              LET n == ns_map.channels[2]
                  w == PositionWrites(ns_map.map \o past, 1, Memory(n), 0, 0)
                  over == w.top > n * POSITION_WRITE
              IN  /\ ns_props' = [ns_props EXCEPT
                                    ![SPA_KEY_AUDIO_POSITION] = CString(w.mem)]
                  /\ ns_oob' = IF over THEN ns_oob \cup {"position"} ELSE ns_oob
                  /\ \/ ns_pc' = "describe"
                     \/ over /\ ns_pc' = "crashed"
       ELSE /\ ns_pc' = "describe"
            /\ UNCHANGED << ns_props, ns_oob >>
    /\ UNCHANGED << ns_argument, ns_fail, ns_props_state, ns_channels, ns_map,
                    ns_res, ns_errno, ns_module >>
    /\ UNCHANGED << loopback_vars, d_vars >>

\* Lines 186-203: media.class, node.description ("%s%s%s%ssink"),
\* factory.name and object.linger.  The arguments drawn hold neither
\* media.class nor device.description.
ns_describe ==
    /\ ns_pc = "describe"
    /\ LET class == IF ns_props[PW_KEY_MEDIA_CLASS] = NsNULL
                    THEN <<"Audio/Sink">> ELSE ns_props[PW_KEY_MEDIA_CLASS]
           name == ns_props[PW_KEY_NODE_NAME]
       IN  ns_props' = [ns_props EXCEPT
                         ![PW_KEY_MEDIA_CLASS] = class,
                         ![PW_KEY_NODE_DESCRIPTION] =
                             name \o (IF name = <<>> THEN <<>> ELSE <<" ">>) \o
                             class \o (IF class = <<>> THEN <<>> ELSE <<" ">>) \o
                             <<"sink">>,
                         ![PW_KEY_FACTORY_NAME] = <<"support.null-audio-sink">>,
                         ![PW_KEY_OBJECT_LINGER] = <<"true">>]
    /\ ns_pc' = "module_new"
    /\ UNCHANGED << ns_argument, ns_fail, ns_props_state >>
    /\ UNCHANGED ns_locals
    /\ UNCHANGED << loopback_vars, d_vars >>

\* The user data left as module_new hands it out.
global_id_Zeroed == << 0, 0 >>

\* Line 212: d->global_id = SPA_ID_INVALID.
global_id_init == SPA_ID_INVALID

\* Lines 205-214: module_new; the module takes props, and its user data, which
\* module_new hands out zeroed, gets global_id = SPA_ID_INVALID.
ns_module_new ==
    /\ ns_pc = "module_new"
    /\ IF ns_fail = "module"
       THEN /\ ns_res' = 0 - ENOMEM
            /\ ns_pc' = "out"
            /\ UNCHANGED << ns_props_state, ns_module, d_proxy, d_global_id >>
       ELSE /\ ns_props_state' = "module"
            /\ ns_module' = "module"
            /\ d_proxy' = "null"
            /\ d_global_id' = global_id_init
            /\ ns_pc' = "returned"
            /\ UNCHANGED ns_res
    /\ UNCHANGED << ns_argument, ns_fail, ns_props, ns_channels, ns_map, ns_errno,
                    ns_oob >>
    /\ UNCHANGED << d_listener, proxy, load_ret, unloads, bound_ids, loaded,
                    destroy_calls, registry_destroys >>
    /\ UNCHANGED loopback_vars

\* Lines 215-219: out: props is freed, errno = -res, return NULL.
ns_out ==
    /\ ns_pc = "out"
    /\ ns_props_state' = IF ns_props_state = "live" THEN "freed" ELSE ns_props_state
    /\ ns_errno' = 0 - ns_res
    /\ ns_module' = "null"
    /\ ns_pc' = "returned"
    /\ UNCHANGED << ns_argument, ns_fail, ns_props, ns_channels, ns_map, ns_res,
                    ns_oob >>
    /\ UNCHANGED << loopback_vars, d_vars >>

create_module_null_sink ==
    \/ ns_props_new
    \/ ns_sink_name
    \/ ns_get_channels
    \/ ns_get_channel_map
    \/ ns_check
    \/ ns_position
    \/ ns_describe
    \/ ns_module_new
    \/ ns_out

(* --------------- null-sink: load, unload, proxy events ----------------- *)

d_history == << load_ret, unloads, bound_ids, loaded, registry_destroys >>

\* The module the factory returned, in a process that is still running.
ModuleMade == ns_pc = "returned" /\ ns_module = "module"

\* The handler that forgets to clear the pointer.
module_null_sink_proxy_destroy_KeepsPointer ==
    /\ d_listener' = FALSE
    /\ d_proxy' = d_proxy

\* Lines 38-45, the destroy handler: spa_hook_remove(&d->listener);
\* d->proxy = NULL.
module_null_sink_proxy_destroy ==
    /\ d_listener' = FALSE
    /\ d_proxy' = "null"

\* pw_proxy_destroy(p), called by who: a live proxy emits destroy to its
\* listeners and is gone; a NULL pointer or a proxy already destroyed is
\* memory the call must not touch, and the process crashes or goes on.
pw_proxy_destroy(who, p) ==
    LET arg == IF p = "null" THEN "null" ELSE proxy
    IN  /\ destroy_calls' = Append(destroy_calls, << who, arg >>)
        /\ IF arg = "live"
           THEN /\ proxy' = "destroyed"
                /\ IF d_listener
                   THEN module_null_sink_proxy_destroy
                   ELSE UNCHANGED << d_listener, d_proxy >>
                /\ UNCHANGED ns_pc
           ELSE /\ ns_pc' \in {"crashed", ns_pc}
                /\ UNCHANGED << proxy, d_listener, d_proxy >>

ns_factory_vars == << ns_argument, ns_fail, ns_props, ns_props_state, ns_channels,
                     ns_map, ns_res, ns_errno, ns_module, ns_oob >>

\* Lines 67-88: pw_core_create_object makes the proxy or returns NULL; the
\* listener is added to the proxy made.
module_null_sink_load ==
    /\ ModuleMade
    /\ load_ret = "none"
    /\ \E made \in BOOLEAN :
          IF made
          THEN /\ d_proxy' = "proxy"
               /\ proxy' = "live"
               /\ d_listener' = TRUE
               /\ load_ret' = "ok"
          ELSE /\ d_proxy' = "null"
               /\ load_ret' = "failed"
               /\ UNCHANGED << proxy, d_listener >>
    /\ UNCHANGED << d_global_id, unloads, bound_ids, loaded, destroy_calls,
                    registry_destroys >>
    /\ UNCHANGED << ns_pc, ns_factory_vars, loopback_vars >>

\* Lines 47-55, the bound handler: d->global_id = global_id;
\* module_emit_loaded(module, 0).
module_null_sink_proxy_bound ==
    /\ ModuleMade
    /\ d_listener
    /\ Len(bound_ids) < MaxBound
    /\ \E global_id \in GlobalIds :
          /\ d_global_id' = global_id
          /\ bound_ids' = Append(bound_ids, global_id)
    /\ loaded' = Append(loaded, 0)
    /\ UNCHANGED << d_proxy, d_listener, proxy, load_ret, unloads, destroy_calls,
                    registry_destroys >>
    /\ UNCHANGED << ns_pc, ns_factory_vars, loopback_vars >>

\* Lines 31-36, the removed handler: pw_proxy_destroy(d->proxy).
module_null_sink_proxy_removed ==
    /\ ModuleMade
    /\ d_listener
    /\ pw_proxy_destroy("removed", d_proxy)
    /\ UNCHANGED << d_global_id, d_history >>
    /\ UNCHANGED << ns_factory_vars, loopback_vars >>

\* Lines 57-65, the error handler: pw_proxy_destroy(d->proxy).
module_null_sink_proxy_error ==
    /\ ModuleMade
    /\ d_listener
    /\ pw_proxy_destroy("error", d_proxy)
    /\ UNCHANGED << d_global_id, d_history >>
    /\ UNCHANGED << ns_factory_vars, loopback_vars >>

\* The core destroys a proxy it still has (the client goes away): the destroy
\* handler of lines 38-45 runs with no call from this file.
core_proxy_destroy ==
    /\ ModuleMade
    /\ proxy = "live"
    /\ pw_proxy_destroy("core", "proxy")
    /\ UNCHANGED << d_global_id, d_history >>
    /\ UNCHANGED << ns_factory_vars, loopback_vars >>

\* Lines 90-99: the proxy is destroyed if d->proxy is set, the global if
\* d->global_id is set.
module_null_sink_unload ==
    /\ ModuleMade
    /\ unloads < MaxUnload
    /\ unloads' = unloads + 1
    /\ IF d_proxy # "null"
       THEN pw_proxy_destroy("unload", d_proxy)
       ELSE UNCHANGED << d_proxy, d_listener, proxy, destroy_calls, ns_pc >>
    /\ registry_destroys' =
          IF ns_pc' # "crashed" /\ d_global_id # SPA_ID_INVALID
          THEN Append(registry_destroys, d_global_id)
          ELSE registry_destroys
    /\ UNCHANGED << d_global_id, load_ret, bound_ids, loaded >>
    /\ UNCHANGED << ns_factory_vars, loopback_vars >>

module_null_sink ==
    \/ module_null_sink_load
    \/ module_null_sink_proxy_bound
    \/ module_null_sink_proxy_removed
    \/ module_null_sink_proxy_error
    \/ core_proxy_destroy
    \/ module_null_sink_unload

(* --------------------------- specifications ---------------------------- *)

setup_streams ==
    \/ setup_capture_new
    \/ setup_playback_new
    \/ setup_capture_connect
    \/ setup_playback_connect

main ==
    \/ main_init
    \/ main_getopt
    \/ main_getopt_end
    \/ main_loop_new
    \/ main_context_new
    \/ main_set_props
    \/ main_connect
    \/ setup_streams
    \/ main_run
    \/ main_loop_return
    \/ main_exit_core
    \/ main_exit_context
    \/ main_exit_loop
    \/ main_exit_props

Next ==
    \/ main
    \/ do_quit
    \/ on_core_error
    \/ stream_format_changed
    \/ capture_process

Spec == Init /\ [][Next]_vars

\* The loop thread runs main to its end; the realtime thread finishes the
\* callback it is in; joining it at pw_core_disconnect succeeds as the
\* callback returns again and again.
Fairness ==
    /\ WF_vars(main)
    /\ SF_vars(main_exit_core)
    /\ WF_vars(cp_dequeue_out \/ cp_forward \/ cp_queue_in \/ cp_queue_out)

\* The command lines of at most one option, with the smallest buffer pool.
InitLive == Init /\ Len(argv) <= 1 /\ nbufs = 1

LiveSpec == InitLive /\ [][Next]_vars /\ Fairness

\* The null-sink factory, called with every argument drawn, while pw-loopback
\* (another program) is not looked at.
NullSinkInit ==
    /\ InitState /\ argv = <<>> /\ nbufs = 1
    /\ ns_pc = "props_new"
    /\ ns_argument \in Arguments
    /\ ns_fail \in NsFailures
    /\ ns_props = NsNoProps
    /\ ns_props_state = "null"
    /\ ns_channels = <<0, 0>>
    /\ ns_map = CHANNEL_MAP_INIT
    /\ ns_res = 0
    /\ ns_errno = 0
    /\ ns_module = "none"
    /\ ns_oob = {}
    /\ NoModule

NullSinkNext == create_module_null_sink \/ module_null_sink

NullSinkSpec == NullSinkInit /\ [][NullSinkNext]_vars

(* ------------------------------- claims -------------------------------- *)

Held(s) == { b \in Buffers : StreamOf(b) = s /\ owner[b] = "engine" }

\* C1: every buffer capture_process dequeues from a stream is queued back to
\* that same stream exactly once before the next dequeue on that stream (and
\* no other buffer is queued), and when capture_process has returned the
\* engine holds no buffer.
C1_BuffersReturned ==
    /\ \A b \in Buffers :
          /\ nq[b] <= 1
          /\ owner[b] = "engine" => nq[b] = 0 /\ b \in {rt_in, rt_out}
          /\ nq[b] = 1 => qto[b] = StreamOf(b)
    /\ \A s \in Dirs : Cardinality(Held(s)) <= 1
    /\ rt_pc = "idle" =>
          /\ \A b \in Buffers :
                /\ owner[b] = "daemon"
                /\ nq[b] = IF b \in {rt_in, rt_out} THEN 1 ELSE 0
          /\ tickq["capture"] = IF rt_in # NoBuf THEN 1 ELSE 0
          /\ tickq["playback"] = IF rt_out # NoBuf THEN 1 ELSE 0

\* Both dequeues succeeded and both buffers went back, in a call after one
\* that used the other two buffers of a pool of two.
C1_Witness ==
    /\ rt_pc = "idle"
    /\ rt_in = <<"capture", 2>> /\ rt_out = <<"playback", 1>>
    /\ nq[rt_in] = 1 /\ nq[rt_out] = 1
    /\ desc[<<"playback", 2>>] = <<"capture", 1>>

\* C2: when both dequeues succeed the playback buffer is queued carrying the
\* capture buffer's descriptor as it was at dequeue time, the capture
\* buffer's descriptor is unchanged, and the copy is made while the engine
\* still holds both buffers.
C2_DescriptorForwarded ==
    /\ rt_pc = "queue_in" /\ rt_in # NoBuf /\ rt_out # NoBuf =>
          /\ owner[rt_in] = "engine" /\ owner[rt_out] = "engine"
          /\ desc[rt_out] = in_desc0
          /\ desc[rt_in] = in_desc0
    /\ rt_pc = "idle" /\ rt_in # NoBuf /\ rt_out # NoBuf =>
          /\ qdesc[rt_out] = in_desc0
          /\ qdesc[rt_in] = in_desc0
          /\ desc[rt_in] = in_desc0

\* A playback buffer that went back aimed at the second capture buffer.
C2_Witness ==
    /\ rt_pc = "idle"
    /\ rt_in = <<"capture", 2>> /\ rt_out # NoBuf
    /\ qdesc[rt_out] = <<"capture", 2>>
    /\ out_desc0 = rt_out

OnlyCapture == rt_pc = "idle" /\ rt_in # NoBuf /\ rt_out = NoBuf
OnlyPlayback == rt_pc = "idle" /\ rt_in = NoBuf /\ rt_out # NoBuf

\* C3 as stated: with only the capture dequeue succeeding the capture buffer
\* is queued back and nothing is queued on playback; with only the playback
\* dequeue succeeding the playback buffer is queued back empty, carrying no
\* capture data, and nothing is queued on capture.
C3_Original ==
    /\ OnlyCapture =>
          /\ nq[rt_in] = 1 /\ qto[rt_in] = "capture"
          /\ tickq["capture"] = 1 /\ tickq["playback"] = 0
    /\ OnlyPlayback =>
          /\ nq[rt_out] = 1 /\ qto[rt_out] = "playback"
          /\ tickq["capture"] = 0 /\ tickq["playback"] = 1
          /\ StreamOf(qdesc[rt_out]) # "capture"

\* C3 as amended: with only the playback dequeue succeeding the playback
\* buffer is queued back exactly as it was dequeued (capture_process writes
\* nothing into it), which may be the capture descriptor an earlier call
\* forwarded into it; the rest as stated.
C3_QueuedBackUnmodified ==
    /\ OnlyCapture =>
          /\ nq[rt_in] = 1 /\ qto[rt_in] = "capture"
          /\ tickq["capture"] = 1 /\ tickq["playback"] = 0
    /\ OnlyPlayback =>
          /\ nq[rt_out] = 1 /\ qto[rt_out] = "playback"
          /\ tickq["capture"] = 0 /\ tickq["playback"] = 1
          /\ qdesc[rt_out] = out_desc0
          /\ desc[rt_out] = out_desc0

\* Only the playback dequeue succeeded, on a buffer an earlier call had aimed
\* at capture memory.
C3_Witness ==
    /\ OnlyPlayback
    /\ tickq["playback"] = 1
    /\ StreamOf(qdesc[rt_out]) = "capture"

BothStreams == stream["capture"] # "null" /\ stream["playback"] # "null"

\* C4: for every command line, when the two streams are constructed the two
\* dictionaries hold the identical value under node.group.
C4_SameGroup ==
    /\ pc \in {"connect", "setup_capture_new"} =>
          /\ dict["capture"][PW_KEY_NODE_GROUP] # NULLSTR
          /\ dict["capture"][PW_KEY_NODE_GROUP]
                = dict["playback"][PW_KEY_NODE_GROUP]
    /\ BothStreams =>
          /\ stream_props["capture"][PW_KEY_NODE_GROUP] # NULLSTR
          /\ stream_props["capture"][PW_KEY_NODE_GROUP]
                = stream_props["playback"][PW_KEY_NODE_GROUP]

\* Both streams made after -g mygroup and a capture overlay naming
\* node.group=other.
C4_Witness ==
    /\ BothStreams
    /\ opt_group_name = "mygroup"
    /\ stream_props["capture"][MEDIA_ROLE] = "Game"
    /\ stream_props["playback"][PW_KEY_NODE_GROUP] = "mygroup"

\* C5 as stated: an overlay's value is the final value of each of its keys;
\* a stream whose overlay said node.group=other (the overlay that also sets
\* media.role=Game) ends with node.group=other.
C5_Original ==
    \A d \in Dirs :
        stream[d] # "null" /\ stream_props[d][MEDIA_ROLE] = "Game" =>
            stream_props[d][PW_KEY_NODE_GROUP] = "other"

\* C5 as amended: the overlays are merged while the options are parsed, before
\* main writes node.group and node.latency; so on both streams node.group is
\* the group name (-g or the default) and, when -l gave a non-zero latency,
\* node.latency is "<latency>/48000", whatever the overlays say; an overlay's
\* node.latency stays only when main writes none.
C5_EngineWritesLast ==
    \A d \in Dirs :
        stream[d] # "null" =>
            /\ stream_props[d][PW_KEY_NODE_GROUP] = opt_group_name
            /\ latency # <<0, 0>> =>
                  stream_props[d][PW_KEY_NODE_LATENCY] = FormatLatency(latency)
            /\ latency = <<0, 0>> /\ stream_props[d][MEDIA_ROLE] = "Music" =>
                  stream_props[d][PW_KEY_NODE_LATENCY] = "64/48000"

\* -g mygroup with the capture overlay node.group=other: both streams carry
\* mygroup.
C5_Witness ==
    /\ stream["capture"] # "null"
    /\ stream_props["capture"][MEDIA_ROLE] = "Game"
    /\ opt_group_name = "mygroup"
    /\ stream_props["capture"][PW_KEY_NODE_GROUP] = "mygroup"

\* C6: on_core_error makes the loop quit if and only if the error is addressed
\* to the core object id and its code is EPIPE; on any other error the loop
\* keeps running and the loop thread stays where it is, whatever came before.
C6_QuitOnlyOnCoreEpipe ==
    [][ last_ev' # last_ev /\ last_ev'.kind = "error" =>
          /\ running' = IF last_ev'.id = PW_ID_CORE /\ last_ev'.res = 0 - EPIPE
                        THEN FALSE ELSE running
          /\ pc' = pc ]_vars

\* The loop still running after an EPIPE addressed to another object.
C6_Witness ==
    /\ pc = "running"
    /\ running
    /\ last_ev = [kind |-> "error", id |-> PW_ID_CORE + 1, res |-> 0 - EPIPE]

Reverse(s) == [i \in 1..Len(s) |-> s[Len(s) + 1 - i]]

QuitRequested ==
    /\ pc = "running"
    /\ \/ last_ev.kind = "signal"
       \/ last_ev = [kind |-> "error", id |-> PW_ID_CORE, res |-> 0 - EPIPE]

TornDown ==
    /\ pc = "exited"
    /\ ~running
    /\ \A d \in Dirs : stream[d] \in {"null", "destroyed"}
    /\ core = "destroyed" /\ context = "destroyed" /\ loop = "destroyed"
    /\ built = << "loop", "context", "core" >>
    /\ torn = << "core", "context", "loop" >>

\* C7: once the loop runs, SIGINT, SIGTERM or EPIPE on the core leads to the
\* loop exiting, no stream left connected and the session released; every
\* exit through the exit label tears down what was constructed in reverse
\* order of construction, each component once.
C7_QuitLeadsToTeardown ==
    /\ [](pc = "exited" /\ exit_via = "exit" => torn = Reverse(built))
    /\ QuitRequested ~> TornDown

\* An exit after the loop ran with both streams connected.
C7_Witness ==
    /\ TornDown
    /\ loop_ran
    /\ setup = "ok"
    /\ \A d \in Dirs : stream[d] = "destroyed"

\* C8: when stream setup fails (a stream cannot be created, or a connect is
\* rejected) the loop is never run and the program exits non-zero.
C8_SetupFailureAborts ==
    setup = "error" =>
        /\ ~loop_ran
        /\ pc # "running"
        /\ pc = "exited" => ExitStatus # 0

IsPrefix(s, t) == Len(s) <= Len(t) /\ \A i \in 1..Len(s) : s[i] = t[i]

\* C9: the exit status is 0 exactly on an orderly shutdown (the loop ran and
\* was quit, with no other error outstanding) and non-zero on an unknown
\* argument or a failed initialization, after which nothing later is
\* constructed and the loop is not run.  (-h and --version, which the CLI
\* table gives exit 0, are left aside.)
C9_ExitStatus ==
    pc = "exited" =>
        /\ exit_via = "exit" => (ExitStatus = 0 <=> (loop_ran /\ setup = "ok"))
        /\ exit_via = "usage" => ExitStatus # 0
        /\ exit_via = "exit" /\ ~loop_ran =>
              /\ ExitStatus # 0
              /\ Len(built) < 3
              /\ IsPrefix(built, << "loop", "context", "core" >>)
              /\ \A d \in Dirs : stream[d] = "null"

\* round(ms * 48000 / 1000): 48000 / 1000 is 48, so nothing is rounded.
ExactFrames(ms) == ms * (DEFAULT_RATE \div SPA_MSEC_PER_SEC)

\* C10: for every ms given with -l, frames = round(ms * 48000 / 1000) without
\* wrap-around; non-zero frames are written to both dictionaries as
\* "<frames>/48000", zero frames write nothing (only an overlay's
\* node.latency can then be there).
C10_LatencyFrames ==
    pc = "connect" =>
        \A d \in Dirs :
            IF ExactFrames(latency_ms) # 0
            THEN dict[d][PW_KEY_NODE_LATENCY]
                    = ToString(ExactFrames(latency_ms)) \o "/"
                        \o ToString(DEFAULT_RATE)
            ELSE dict[d][PW_KEY_NODE_LATENCY] \in {NULLSTR, "64/48000"}


(* ------------------------- claims: null-sink --------------------------- *)

\* C11: create_module_null_sink returns a module only with
\* map.channels = channels; whenever the resolved map's length differs from
\* the resolved channel count it returns NULL, with props freed and errno
\* EINVAL.
C11_MapLengthChecked ==
    /\ ns_module = "module" => ns_map.channels = ns_channels
    /\ ns_pc \in {"position", "describe", "module_new"} =>
          ns_map.channels = ns_channels
    /\ ns_pc = "returned" /\ ns_map.channels # ns_channels =>
          /\ ns_module = "null"
          /\ ns_props_state = "freed"
          /\ ns_errno = EINVAL

\* An unparseable channel_map with channels=2 was refused.
C11_Witness ==
    /\ ns_pc = "returned"
    /\ ns_argument.channels = <<"2">>
    /\ ns_argument.channel_map = <<"XX">>
    /\ ns_map.channels # ns_channels
    /\ ns_module = "null"
    /\ ns_props_state = "freed"
    /\ ns_errno = EINVAL

\* The channel count the call resolved lies outside 1..MAX_CHANNELS.
ChannelsResolved == ns_pc \notin {"idle", "props_new", "sink_name", "channels"}
ChannelsOutOfRange ==
    ns_channels[1] # 0 \/ ns_channels[2] = 0 \/ ns_channels[2] > MAX_CHANNELS

\* C13: a channel count outside 1..MAX_CHANNELS is refused with EINVAL: no
\* module is created for it, and no position is written at an index
\* >= MAX_CHANNELS of map.map.
C13_ChannelRangeRejected ==
    /\ "map" \notin ns_oob
    /\ ns_pc = "returned" /\ ChannelsResolved /\ ChannelsOutOfRange =>
          ns_module = "null" /\ ns_errno = EINVAL

AllUnknown(m) == \A i \in 1..Len(m) : m[i] = SPA_AUDIO_CHANNEL_UNKNOWN

\* C14: when no channel_map is given and a module is returned, the map is
\* the daemon's default map if channels equals its length, and otherwise
\* holds exactly channels positions, all UNKNOWN.
C14_DefaultMap ==
    ns_module = "module" /\ ns_argument.channel_map = NsNULL =>
        IF ns_channels = Defs.map.channels
        THEN ns_map = Defs.map
        ELSE /\ ns_map.channels = ns_channels
             /\ Len(ns_map.map) = ns_channels[2]
             /\ AllUnknown(ns_map.map)

\* The position names of a map joined by single commas.
RECURSIVE JoinNames(_)
JoinNames(m) ==
    IF m = <<>> THEN <<>>
    ELSE IF Len(m) = 1 THEN channel_id2name(m[1])
    ELSE channel_id2name(m[1]) \o <<",">> \o JoinNames(Tail(m))

\* C15: for every accepted map of at least one channel, audio.position is
\* the position names in channel order joined by single commas, none
\* truncated, and no byte is written outside the map.channels * 6 bytes.
C15_PositionString ==
    ns_module = "module" /\ ns_map.channels # <<0, 0>> /\ "map" \notin ns_oob =>
        /\ ns_props[SPA_KEY_AUDIO_POSITION] = JoinNames(ns_map.map)
        /\ "position" \notin ns_oob

(* ----------------------- claims: pw-loopback, II ----------------------- *)

\* The words of the channel map texts the command lines carry.
ChannelMapText(t) ==
    CASE t = "[ FL, FR ]" -> <<"[", " ", "FL", ",", " ", "FR", " ", "]">>
      [] t = "[ MONO ]" -> <<"[", " ", "MONO", " ", "]">>
      [] OTHER -> <<>>

\* The configured channel map, by the Channel Map Resolver's parse.
ConfiguredMap == channel_map_parse(ChannelMapText(opt_channel_map), CHANNEL_MAP_INIT)

\* Option parsing is over and the configured map's length is not the
\* configured channel count.
Configured == pc \notin {"main", "getopt"} /\ exit_via \notin {"help", "version", "usage"}
MapCountMismatch == Configured /\ ConfiguredMap.channels # ToU32(channels)

\* C12: a channel map whose length differs from the channel count is
\* refused during configuration: neither stream is created or connected and
\* the exit status is not 0.
C12_MismatchRejected ==
    MapCountMismatch =>
        /\ \A d \in Dirs : stream[d] = "null"
        /\ pc = "exited" => ExitStatus # 0

\* The canonical form of a channel map: its position tags, comma-separated.
RECURSIVE emit_positions(_)
emit_positions(m) ==
    IF m = <<>> THEN ""
    ELSE IF Len(m) = 1 THEN m[1]
    ELSE m[1] \o "," \o emit_positions(Tail(m))

\* C16: the dictionary each stream is constructed with carries node.group,
\* audio.channels equal to the configured channel count and audio.position
\* equal to the canonical form of the configured channel map.
C16_StreamProps ==
    \A d \in Dirs :
        stream[d] # "null" =>
            /\ stream_props[d][PW_KEY_NODE_GROUP] # NULLSTR
            /\ stream_props[d][AUDIO_CHANNELS] = ToString(channels)
            /\ stream_props[d][AUDIO_POSITION] = emit_positions(ConfiguredMap.map)

\* C17: after the daemon changed the format of a connected stream the engine
\* eventually has both streams disconnected and constructed anew, ready to
\* be reconnected.
C17_FormatChangeReconfigures ==
    (last_ev.kind = "format") ~> (\A d \in Dirs : stream[d] = "unconnected")

\* The warnings a call logs for the results in and out of its two dequeues.
WarnsFor(i, o) ==
    (IF i = NoBuf THEN <<"out of capture buffers">> ELSE <<>>) \o
    (IF o = NoBuf THEN <<"out of playback buffers">> ELSE <<>>)

\* C18: a capture_process call logs exactly one warning for each dequeue
\* that found no buffer and none otherwise; no step of it stops the loop or
\* moves the loop thread; it returns holding no buffer, and a call after a
\* failed one in which both dequeues succeed forwards and queues as usual.
C18_WarnAndContinue ==
    /\ [](rt_pc = "dequeue_out" =>
            warns = IF rt_in = NoBuf THEN <<"out of capture buffers">> ELSE <<>>)
    /\ [](rt_pc \in {"forward", "queue_in", "queue_out"} =>
            warns = WarnsFor(rt_in, rt_out))
    /\ [](rt_pc = "idle" => \A b \in Buffers : owner[b] = "daemon")
    /\ [](rt_pc = "idle" /\ tick_failed /\ rt_in # NoBuf /\ rt_out # NoBuf =>
            /\ desc[rt_out] = in_desc0
            /\ nq[rt_in] = 1 /\ qto[rt_in] = "capture"
            /\ nq[rt_out] = 1 /\ qto[rt_out] = "playback")
    /\ [][rt_pc' # rt_pc => running' = running /\ pc' = pc /\ stream' = stream]_vars

\* After a call with a failed dequeue, a call dequeued both buffers,
\* forwarded and queued them without a warning, and the loop runs on.
C18_Witness ==
    /\ rt_pc = "idle"
    /\ tick_failed
    /\ rt_in # NoBuf /\ rt_out # NoBuf
    /\ warns = <<>>
    /\ desc[rt_out] = in_desc0
    /\ pc = "running" /\ running

\* C19: each dictionary has one owner at a time (until main returns, main's
\* pointer is set exactly while main owns it, so main frees no dictionary it
\* handed to pw_stream_new), and when main has returned every dictionary
\* that was allocated has been freed.
C19_DictFreedOnce ==
    \A d \in Dirs :
        /\ pc # "exited" => (props_ptr[d] <=> dict_state[d] = "main")
        /\ pc = "exited" => dict_state[d] \in {"none", "freed"}

\* C20: capture_process runs, and the capture stream is connected, only
\* when both stream handles have been created; it never uses a NULL stream;
\* a call that runs before the playback stream is connected gets no
\* playback buffer and logs the warning for it.
C20_CallbackSeesBothStreams ==
    /\ stream["capture"] = "connected" \/ rt_pc # "idle" =>
          \A d \in Dirs : stream[d] # "null"
    /\ ~null_deref
    /\ rt_pc \in {"forward", "queue_in", "queue_out"} /\
         stream["playback"] = "unconnected" =>
          /\ rt_out = NoBuf
          /\ warns = WarnsFor(rt_in, NoBuf)

\* A call ran between the two pw_stream_connect calls of setup_streams: it
\* got a capture buffer and no playback buffer.
C20_Witness ==
    /\ pc = "setup_playback_connect"
    /\ stream["playback"] = "unconnected"
    /\ rt_pc = "queue_out"
    /\ rt_in # NoBuf /\ rt_out = NoBuf
(* ------------------------ claims: null-sink, II ------------------------ *)

\* The pw_proxy_destroy calls that were given a live proxy.
Destroyed == { i \in 1..Len(destroy_calls) : destroy_calls[i][2] = "live" }

\* C21: under every order of load, unload and the proxy events, the proxy is
\* destroyed at most once, pw_proxy_destroy is never given a NULL pointer or a
\* proxy already destroyed, unload destroys only through a pointer that is
\* set, and once the proxy is destroyed the listener is off and the pointer
\* is NULL, so that no handler runs afterwards.
C21_DestroyedOnce ==
    /\ [](/\ \A i \in 1..Len(destroy_calls) : destroy_calls[i][2] = "live"
          /\ Cardinality(Destroyed) <= 1
          /\ proxy = "destroyed" => ~d_listener /\ d_proxy = "null"
          /\ d_proxy = "proxy" => proxy = "live")
    /\ [][/\ bound_ids' # bound_ids => proxy = "live"
          /\ Len(destroy_calls') > Len(destroy_calls) =>
                /\ proxy = "live" /\ proxy' = "destroyed"
                /\ unloads' # unloads => d_proxy = "proxy"]_vars

\* unload destroyed the proxy of a bound module, and a second unload found the
\* pointer cleared.
C21_Witness ==
    /\ destroy_calls = << << "unload", "live" >> >>
    /\ Len(registry_destroys) >= 2
    /\ d_proxy = "null"

Last(q) == q[Len(q)]

\* C22: module_emit_loaded is called, with result 0, only by the bound
\* handler; global_id is SPA_ID_INVALID from the making of the module to the
\* first bound event and the id that bound delivered afterwards; an unload
\* asks pw_registry_destroy for that id if a bound event was received and for
\* nothing otherwise; a proxy destroyed before any bound event leaves the
\* module with no loaded report and no registry destroy for good.
C22_LoadedOnBound ==
    /\ [](/\ ns_module = "module" =>
                d_global_id = IF bound_ids = <<>> THEN SPA_ID_INVALID
                              ELSE Last(bound_ids)
          /\ loaded = [i \in 1..Len(bound_ids) |-> 0]
          /\ bound_ids = <<>> => registry_destroys = <<>>)
    /\ [][/\ loaded' # loaded =>
                /\ Len(bound_ids') = Len(bound_ids) + 1
                /\ loaded' = Append(loaded, 0)
          /\ bound_ids' # bound_ids => d_global_id' = Last(bound_ids')
          /\ unloads' # unloads =>
                registry_destroys' = IF bound_ids = <<>> THEN registry_destroys
                                     ELSE Append(registry_destroys, Last(bound_ids))
          /\ unloads' = unloads => registry_destroys' = registry_destroys]_vars
    /\ [](proxy = "destroyed" /\ bound_ids = <<>> =>
            [](loaded = <<>> /\ registry_destroys = <<>>))

\* bound delivered an id, the load was reported once, and unload asked the
\* registry to destroy that id.
C22_Witness ==
    /\ bound_ids = << ToU32(35) >>
    /\ loaded = << 0 >>
    /\ registry_destroys = << ToU32(35) >>

\* The proxy failed before it was bound and the module was unloaded.
C22_ErrorBeforeBound ==
    /\ destroy_calls = << << "error", "live" >> >>
    /\ bound_ids = <<>>
    /\ unloads > 0

====
